---------------------------- MODULE Spec2Model ----------------------------
(***************************************************************************)
(* AsciiDoc reflow engine (src/core.js).                                   *)
(*                                                                         *)
(* A string is a sequence of one-character strings, so that every regular  *)
(* expression and every string operation of the source is computed         *)
(* character by character.  A document is such a sequence with "\n" as    *)
(* its line terminator.                                                    *)
(*                                                                         *)
(* Two specifications:                                                     *)
(*   Spec      the line scanner reflowTextAdoc, run twice in a row the way *)
(*             the test helper fmt runs it (second pass over the output of *)
(*             the first);                                                 *)
(*   WrapSpec  the word loop of wrapText, one action per loop step, so     *)
(*             that the hard-split loop is observable iteration by         *)
(*             iteration.                                                  *)
(***************************************************************************)
EXTENDS Integers, Sequences, FiniteSets, TLC

VARIABLES
  input,           \* reflowTextAdoc: the input parameter (characters)
  width,           \* reflowTextAdoc: the width parameter
  src,             \* const src = input.split(/\r?\n/)
  endsWithNL,      \* const endsWithNL
  i,               \* loop index of the main scan (0-based, as in the source)
  out,             \* const out = []   (one entry per output line)
  para,            \* let para = []
  inFence, inOpen, inTable, inCommentBlock, inLiteralPara,
  pc,              \* "scan" | "done"
  pass,            \* 1: reflowTextAdoc(input), 2: reflowTextAdoc(out) of fmt
  first,           \* fmt: const out  (result of the first pass)
  result,          \* the returned string of the current pass
  wtext,           \* wrapText: text
  wwidth,          \* wrapText: width
  whang,           \* wrapText: hangingPrefix
  words,           \* wrapText: const words
  widx,            \* wrapText: number of words already taken by the for loop
  wlines,          \* wrapText: const lines
  wline,           \* wrapText: let line
  ws,              \* wrapText: let s (hard-split remainder)
  wpc,             \* "idle" | "loop" | "split" | "done"
  wresult,         \* wrapText: the returned string
  document,        \* extension: the TextDocument, as its lines
  wrapColumn,      \* extension: the setting adocReflow.wrapColumn
  editor,          \* extension: vscode.window.activeTextEditor is set
  selections,      \* extension: editor.selections
  range,           \* extension: the range argument of the range provider
  entry,           \* extension: the command or provider that is called
  target,          \* extension: the range whose text is being reflowed
  edits,           \* extension: the replacements handed to the editor
  hpc              \* "idle" | "called" | "engine" | "returned"

scanVars == << input, width, src, endsWithNL, i, out, para, inFence, inOpen,
               inTable, inCommentBlock, inLiteralPara, pc, pass, first, result >>
wrapVars == << wtext, wwidth, whang, words, widx, wlines, wline, ws, wpc, wresult >>
hostVars == << document, wrapColumn, editor, selections, range, entry, target,
               edits, hpc >>
vars == << scanVars, wrapVars, hostVars >>

---------------------------------------------------------------------------
(* Characters and character classes of the regular expressions.            *)

NL == "\n"
CR == "\r"
SP == " "
TAB == "\t"
\* the one character U+2022 (the bullet glyph of LIST_RE and markerDepth)
Bullet == "U+2022"

\* \s of a JavaScript regular expression, restricted to the ASCII members
WhiteSpace == { SP, TAB, NL, CR, "\f" }
Lower == { "a","b","c","d","e","f","g","h","i","j","k","l","m",
           "n","o","p","q","r","s","t","u","v","w","x","y","z" }
Upper == { "A","B","C","D","E","F","G","H","I","J","K","L","M",
           "N","O","P","Q","R","S","T","U","V","W","X","Y","Z" }
Digit == { "0","1","2","3","4","5","6","7","8","9" }
Letter == Lower \cup Upper
\* \w
WordChar == Letter \cup Digit \cup { "_" }

Min(a, b) == IF a < b THEN a ELSE b
Max(a, b) == IF a > b THEN a ELSE b

---------------------------------------------------------------------------
(* String operations of JavaScript used by the source.                     *)

\* s.slice(a) / s.slice(a, b) with JavaScript's treatment of negative and
\* out-of-range indices (0-based, end exclusive).
SliceIndex(n, k) == IF k < 0 THEN Max(n + k, 0) ELSE Min(k, n)
Slice(s, a, b) ==
  LET from == SliceIndex(Len(s), a)
      to   == SliceIndex(Len(s), b)
  IN  IF from < to THEN SubSeq(s, from + 1, to) ELSE << >>
SliceFrom(s, a) == Slice(s, a, Len(s))

\* number of leading characters of s that belong to class cls
RECURSIVE LeadRun(_, _)
LeadRun(s, cls) ==
  IF s # << >> /\ Head(s) \in cls THEN 1 + LeadRun(Tail(s), cls) ELSE 0

\* number of trailing characters of s that belong to class cls
RECURSIVE TrailRun(_, _)
TrailRun(s, cls) ==
  IF s # << >> /\ s[Len(s)] \in cls
  THEN 1 + TrailRun(SubSeq(s, 1, Len(s) - 1), cls) ELSE 0

AllIn(s, cls) == \A k \in 1..Len(s) : s[k] \in cls
NoneIn(s, cls) == \A k \in 1..Len(s) : s[k] \notin cls

LTrim(s) == SubSeq(s, LeadRun(s, WhiteSpace) + 1, Len(s))
RTrim(s) == SubSeq(s, 1, Len(s) - TrailRun(s, WhiteSpace))
\* s.trim()
Trim(s) == LTrim(RTrim(s))

\* s.startsWith(p)
StartsWith(s, p) == Len(s) >= Len(p) /\ SubSeq(s, 1, Len(p)) = p

\* 1-based position of the first character of s in class cls, 0 if none
FirstIn(s, cls) ==
  IF \E k \in 1..Len(s) : s[k] \in cls
  THEN CHOOSE k \in 1..Len(s) : s[k] \in cls /\ \A j \in 1..(k-1) : s[j] \notin cls
  ELSE 0

\* n repetitions of character c: c.repeat(n)
Repeat(c, n) == [k \in 1..n |-> c]

\* a.join(sep) for a sequence of strings
RECURSIVE Join(_, _)
Join(a, sep) ==
  IF a = << >> THEN << >>
  ELSE IF Len(a) = 1 THEN a[1]
  ELSE a[1] \o sep \o Join(Tail(a), sep)

\* s.split(c) on a single separator character c: always at least one piece
RECURSIVE SplitChar(_, _)
SplitChar(s, c) ==
  LET p == FirstIn(s, {c})
  IN  IF p = 0 THEN << s >>
      ELSE << SubSeq(s, 1, p - 1) >> \o SplitChar(SubSeq(s, p + 1, Len(s)), c)

\* input.split(/\r?\n/): split at "\n", dropping one "\r" right before it
StripCR(piece) ==
  IF piece # << >> /\ piece[Len(piece)] = CR
  THEN SubSeq(piece, 1, Len(piece) - 1) ELSE piece
SplitLines(s) ==
  LET pieces == SplitChar(s, NL)
  IN  [k \in 1..Len(pieces) |->
         IF k < Len(pieces) THEN StripCR(pieces[k]) ELSE pieces[k]]

\* text.split(/\s+/).filter(Boolean): the whitespace-delimited tokens
RECURSIVE Tokens(_)
Tokens(s) ==
  LET t == LTrim(s)
      n == IF FirstIn(t, WhiteSpace) = 0 THEN Len(t) ELSE FirstIn(t, WhiteSpace) - 1
  IN  IF t = << >> THEN << >>
      ELSE << SubSeq(t, 1, n) >> \o Tokens(SubSeq(t, n + 1, Len(t)))

\* x.replace(/\s+/g, " ").trim() applied to a string: single spaces between
\* tokens, none at the ends
Normalize(s) == Join(Tokens(s), << SP >>)

---------------------------------------------------------------------------
(* Patterns / delimiters: each regular expression is a predicate on a      *)
(* string (or, where the source uses the match groups, a record with the   *)
(* groups).                                                                *)

Str2(a, b) == << a, b >>
Str3(a, b, c) == << a, b, c >>
Str4(a, b, c, d) == << a, b, c, d >>

FenceChars == { ".", "_", "=", "*", "+", "-" }

\* /^([._=*+\-]{4,})\s*$/
FENCE_RE(s) ==
  LET r == RTrim(s) IN Len(r) >= 4 /\ AllIn(r, FenceChars)

\* /^--\s*$/
OPEN_BLOCK_RE(s) == RTrim(s) = Str2("-", "-")

\* /^=+\s/
TITLE_RE(s) ==
  LET k == LeadRun(s, {"="}) IN k >= 1 /\ Len(s) > k /\ s[k + 1] \in WhiteSpace

\* /^:[^:\s][^:]*:\s?.*$/
ATTR_RE(s) ==
  /\ Len(s) >= 3
  /\ s[1] = ":"
  /\ s[2] \notin ({":"} \cup WhiteSpace)
  /\ \E p \in 3..Len(s) : s[p] = ":"

\* /^\.[^\s].*$/
BLOCK_TITLE_RE(s) == Len(s) >= 2 /\ s[1] = "." /\ s[2] \notin WhiteSpace

\* /^\[[^\]]+\]\s*$/
BLOCK_ATTR_RE(s) ==
  LET r == RTrim(s)
  IN  /\ Len(r) >= 3
      /\ r[1] = "["
      /\ r[Len(r)] = "]"
      /\ NoneIn(SubSeq(r, 2, Len(r) - 1), {"]"})

\* /^\s*\[\[[^\]]+\]\]\s*$/
ANCHOR_RE(s) ==
  LET r == Trim(s)
  IN  /\ Len(r) >= 5
      /\ StartsWith(r, Str2("[", "["))
      /\ SubSeq(r, Len(r) - 1, Len(r)) = Str2("]", "]")
      /\ NoneIn(SubSeq(r, 3, Len(r) - 2), {"]"})

\* /^(ifdef|ifndef|ifeval|endif)::.*$/
CONDITIONAL_RE(s) ==
  \/ StartsWith(s, << "i","f","d","e","f",":",":" >>)
  \/ StartsWith(s, << "i","f","n","d","e","f",":",":" >>)
  \/ StartsWith(s, << "i","f","e","v","a","l",":",":" >>)
  \/ StartsWith(s, << "e","n","d","i","f",":",":" >>)

\* /^include::\S+\[.*\]\s*$/
INCLUDE_RE(s) ==
  LET r == RTrim(s)
  IN  /\ StartsWith(r, << "i","n","c","l","u","d","e",":",":" >>)
      /\ r[Len(r)] = "]"
      /\ \E b \in 11..(Len(r) - 1) :
            r[b] = "[" /\ NoneIn(SubSeq(r, 10, b - 1), WhiteSpace)

\* /^[a-z][\w+-]*:(?::)?(?:\S+)?\[[^\]]*\]\s*$/i
BLOCK_MACRO_RE(s) ==
  LET r == RTrim(s)
  IN  /\ Len(r) >= 4
      /\ r[1] \in Letter
      /\ r[Len(r)] = "]"
      /\ \E c \in 2..(Len(r) - 2) : \E b \in (c + 1)..(Len(r) - 1) :
            /\ r[c] = ":"
            /\ AllIn(SubSeq(r, 2, c - 1), WordChar \cup {"+", "-"})
            /\ NoneIn(SubSeq(r, c + 1, b - 1), WhiteSpace)
            /\ r[b] = "["
            /\ NoneIn(SubSeq(r, b + 1, Len(r) - 1), {"]"})

\* /^\|===\s*$/
TABLE_FENCE_RE(s) == RTrim(s) = Str4("|", "=", "=", "=")

\* /^\/\/\/\/\s*$/
COMMENT_BLOCK_FENCE_RE(s) == RTrim(s) = Str4("/", "/", "/", "/")

\* /^\s*\/\/(?!\/\/)\s?.*$/
LINE_COMMENT_RE(s) ==
  LET r == LTrim(s)
  IN  /\ StartsWith(r, Str2("/", "/"))
      /\ ~ StartsWith(SubSeq(r, 3, Len(r)), Str2("/", "/"))

\* LEADING_SPACE_LINE_RE with the space after the anchor lost: /^[^\s].*$/
LEADING_SPACE_LINE_RE_NoSpace(s) == Len(s) >= 1 /\ s[1] \notin WhiteSpace

\* /^ [^\s].*$/
LEADING_SPACE_LINE_RE(s) == Len(s) >= 2 /\ s[1] = SP /\ s[2] \notin WhiteSpace

\* /^[ \t]*\+[ \t]*$/
CONTINUATION_LINE_RE(s) ==
  LET a == LeadRun(s, {SP, TAB})
      b == TrailRun(s, {SP, TAB})
  IN  a + 1 + b = Len(s) /\ s[a + 1] = "+"

\* /^(\t| {4,})/
INDENTED_CODE_RE(s) == (s # << >> /\ s[1] = TAB) \/ LeadRun(s, {SP}) >= 4

\* /^'{3,}\s*$/
HR_RE(s) == LET r == RTrim(s) IN Len(r) >= 3 /\ AllIn(r, {"'"})

\* /^<<<\s*$/
PAGE_RE(s) == RTrim(s) = Str3("<", "<", "<")

\* /^[a-z]+:\/\/\S+$/i   (applied to one whitespace-free token)
URL_TOKEN_RE(w) ==
  LET k == LeadRun(w, Letter)
  IN  /\ k >= 1
      /\ StartsWith(SubSeq(w, k + 1, Len(w)), Str3(":", "/", "/"))
      /\ Len(w) >= k + 4
      /\ NoneIn(w, WhiteSpace)

\* /^\s*$/
BLANK_RE(s) == AllIn(s, WhiteSpace)

\* HARD_BREAK_RE that wants the + to be the whole line: /^\+$/
HARD_BREAK_RE_WholeLine(s) == s = << "+" >>

\* /\s\+$/
HARD_BREAK_RE(s) == Len(s) >= 2 /\ s[Len(s)] = "+" /\ s[Len(s) - 1] \in WhiteSpace

NoMatch == [ok |-> FALSE, indent |-> << >>, marker |-> << >>, rest |-> << >>]

\* ListMarkerLen with the lettered marker matched without regard to case
\* ([a-zA-Z]\.), as before the fix of version 0.0.2
ListMarkerLenAnyCase(r) ==
  LET bullets == IF r = << >> THEN 0
                 ELSE IF r[1] \in {"*", "+", "-"} THEN LeadRun(r, {r[1]}) ELSE 0
      digits  == LeadRun(r, Digit)
      after(n) == Len(r) > n /\ r[n + 1] \in WhiteSpace
  IN  IF bullets >= 1 /\ bullets <= 6 /\ after(bullets) THEN bullets
      ELSE IF digits >= 1 /\ Len(r) > digits /\ r[digits + 1] = "." /\ after(digits + 1)
        THEN digits + 1
      ELSE IF Len(r) >= 2 /\ r[1] \in Letter /\ r[2] = "." /\ after(2) THEN 2
      ELSE IF r # << >> /\ r[1] = Bullet /\ after(1) THEN 1
      ELSE 0

\* the marker alternative of LIST_RE at the start of r: its length, 0 if none.
\* \*{1,6}|\+{1,6}|\-{1,6}|[0-9]+\.|[a-z]\.|U+2022 , which \s+ must follow.
ListMarkerLen(r) ==
  LET bullets == IF r = << >> THEN 0
                 ELSE IF r[1] \in {"*", "+", "-"} THEN LeadRun(r, {r[1]}) ELSE 0
      digits  == LeadRun(r, Digit)
      after(n) == Len(r) > n /\ r[n + 1] \in WhiteSpace
  IN  IF bullets >= 1 /\ bullets <= 6 /\ after(bullets) THEN bullets
      ELSE IF digits >= 1 /\ Len(r) > digits /\ r[digits + 1] = "." /\ after(digits + 1)
        THEN digits + 1
      ELSE IF Len(r) >= 2 /\ r[1] \in Lower /\ r[2] = "." /\ after(2) THEN 2
      ELSE IF r # << >> /\ r[1] = Bullet /\ after(1) THEN 1
      ELSE 0

\* /^([ \t]*)(\*{1,6}|\+{1,6}|\-{1,6}|[0-9]+\.|[a-z]\.|U+2022)\s+(.*)$/
LIST_RE(s) ==
  LET n == LeadRun(s, {SP, TAB})
      r == SubSeq(s, n + 1, Len(s))
      m == ListMarkerLen(r)
  IN  IF m = 0 THEN NoMatch
      ELSE [ok     |-> TRUE,
            indent |-> SubSeq(s, 1, n),
            marker |-> SubSeq(r, 1, m),
            rest   |-> LTrim(SubSeq(r, m + 1, Len(r)))]

\* /^([ \t]*)([^:]+)::\s*(.*)$/
\* [^:]+ cannot cross a colon, so "::" is at the first colon of the line; the
\* greedy indent gives back characters until the term has at least one.
DEF_LIST_RE(s) ==
  LET p == FirstIn(s, {":"})
      n == Min(LeadRun(s, {SP, TAB}), p - 2)
  IN  IF p >= 2 /\ Len(s) > p /\ s[p + 1] = ":"
      THEN [ok     |-> TRUE,
            indent |-> SubSeq(s, 1, n),
            marker |-> SubSeq(s, n + 1, p - 1),
            rest   |-> LTrim(SubSeq(s, p + 2, Len(s)))]
      ELSE NoMatch

AdmonLabels ==
  { << "N","O","T","E" >>, << "T","I","P" >>,
    << "I","M","P","O","R","T","A","N","T" >>,
    << "W","A","R","N","I","N","G" >>, << "C","A","U","T","I","O","N" >> }

\* /^(NOTE|TIP|IMPORTANT|WARNING|CAUTION):\s*(.*)$/   (marker: the label)
ADMON_SINGLE_RE(s) ==
  IF \E l \in AdmonLabels : StartsWith(s, l \o << ":" >>)
  THEN LET l == CHOOSE l \in AdmonLabels : StartsWith(s, l \o << ":" >>)
       IN  [ok     |-> TRUE,
            indent |-> << >>,
            marker |-> l,
            rest   |-> LTrim(SubSeq(s, Len(l) + 2, Len(s)))]
  ELSE NoMatch

\* /^\[(?: |x|X|-)\]\s+/ : the matched prefix (with its whitespace), or empty
ChecklistPrefix(s) ==
  IF /\ Len(s) >= 4
     /\ s[1] = "[" /\ s[2] \in {SP, "x", "X", "-"} /\ s[3] = "]"
     /\ s[4] \in WhiteSpace
  THEN SubSeq(s, 1, 3 + LeadRun(SubSeq(s, 4, Len(s)), WhiteSpace))
  ELSE << >>

\* Marker depth helper: repeated bullets => depth; ordered/lettered => 1
markerDepth(m) ==
  IF m = << >> THEN 0
  ELSE IF AllIn(m, {"*"}) \/ AllIn(m, {"+"}) \/ AllIn(m, {"-"}) THEN Len(m)
  ELSE IF Len(m) >= 2 /\ AllIn(SubSeq(m, 1, Len(m) - 1), Digit) /\ m[Len(m)] = "." THEN 1
  ELSE IF Len(m) = 2 /\ m[1] \in Lower /\ m[2] = "." THEN 1
  ELSE IF m = << Bullet >> THEN 1
  ELSE 0

---------------------------------------------------------------------------
(* Wrapping helpers                                                        *)

\* Math.max(20, width - hangingLen): the floor of the wrap width of list
\* items, definition-list items and admonitions
MinWrapWidth == 20
\* checklist ? 8 : head.length
ChecklistMinHang == 8
\* last.length <= 2
ShortWordLen == 2

\* WrapPlace without the short-last-word rule
WrapPlaceNoShortRule(lines, line, w, wd) ==
  LET candidate == IF line # << >> THEN line \o << SP >> \o w ELSE w
  IN  IF Len(candidate) > wd
      THEN [lines |-> Append(lines, line), line |-> w]
      ELSE [lines |-> lines, line |-> candidate]

\* WrapPlace with the short last word popped but not carried to the next line
WrapPlaceDropShort(lines, line, w, wd) ==
  LET candidate == IF line # << >> THEN line \o << SP >> \o w ELSE w
      parts == SplitChar(line, SP)
      last  == parts[Len(parts)]
  IN  IF Len(candidate) > wd
      THEN IF line # << >> /\ Len(last) <= ShortWordLen /\ Len(parts) > 1
           THEN [lines |-> Append(lines, Join(SubSeq(parts, 1, Len(parts) - 1), << SP >>)),
                 line  |-> w]
           ELSE [lines |-> Append(lines, line), line |-> w]
      ELSE [lines |-> lines, line |-> candidate]

\* wrapText, body of the for loop for a word that is not hard-split:
\* the candidate line, the short-last-word rule, the break.
WrapPlace(lines, line, w, wd) ==
  LET candidate == IF line # << >> THEN line \o << SP >> \o w ELSE w
      parts == SplitChar(line, SP)
      last  == parts[Len(parts)]
  IN  IF Len(candidate) > wd
      THEN IF line # << >> /\ Len(last) <= ShortWordLen /\ Len(parts) > 1
           THEN [lines |-> Append(lines, Join(SubSeq(parts, 1, Len(parts) - 1), << SP >>)),
                 line  |-> last \o << SP >> \o w]
           ELSE [lines |-> Append(lines, line), line |-> w]
      ELSE [lines |-> lines, line |-> candidate]

\* wrapText: if (!isUrl && w.length >= width)
IsHardSplit(w, wd) == ~ URL_TOKEN_RE(w) /\ Len(w) >= wd

\* wrapText: if (line) { lines.push(line); line = ""; }
PushLine(lines, line) == IF line # << >> THEN Append(lines, line) ELSE lines

\* wrapText: while (s.length > width) { lines.push(s.slice(0, width)); s = s.slice(width); }
\* followed by line = s
RECURSIVE HardSplit(_, _, _)
HardSplit(lines, s, wd) ==
  IF Len(s) > wd
  THEN HardSplit(Append(lines, Slice(s, 0, wd)), SliceFrom(s, wd), wd)
  ELSE [lines |-> lines, line |-> s]

\* wrapText: one iteration of for (const w of words)
WrapWord(lines, line, w, wd) ==
  IF IsHardSplit(w, wd)
  THEN HardSplit(PushLine(lines, line), w, wd)
  ELSE WrapPlace(lines, line, w, wd)

RECURSIVE WrapLoop(_, _, _, _)
WrapLoop(lines, line, ww, wd) ==
  IF ww = << >> THEN [lines |-> lines, line |-> line]
  ELSE LET r == WrapWord(lines, line, Head(ww), wd)
       IN  WrapLoop(r.lines, r.line, Tail(ww), wd)

\* wrapText: lines.map((l, i) => (i === 0 ? l : hangingPrefix + l)).join("\n")
WrapJoin(lines, hangingPrefix) ==
  Join([k \in 1..Len(lines) |-> IF k = 1 THEN lines[k] ELSE hangingPrefix \o lines[k]],
       << NL >>)

wrapText(text, wd, hangingPrefix) ==
  LET r == WrapLoop(<< >>, << >>, Tokens(text), wd)
  IN  WrapJoin(PushLine(r.lines, r.line), hangingPrefix)

\* [rest0, ...lines.slice(1).map(l => l.trim())].join(" ").replace(/\s+/g, " ").trim()
ItemBody(rest0, lines) ==
  Normalize(Join(<< rest0 >> \o [k \in 1..(Len(lines) - 1) |-> Trim(lines[k + 1])],
                 << SP >>))

reflowParagraph(lines, wd) ==
  IF lines = << >> THEN << >>
  ELSE
    LET mList == LIST_RE(lines[1])
        mDef  == DEF_LIST_RE(lines[1])
    IN  IF mList.ok THEN
          \* List item with hanging indent
          LET checklist  == ChecklistPrefix(mList.rest)
              rest0      == SubSeq(mList.rest, Len(checklist) + 1, Len(mList.rest))
              head       == mList.indent \o mList.marker \o << SP >> \o checklist
              hangingLen == Max(Len(head),
                                IF checklist # << >> THEN ChecklistMinHang ELSE Len(head))
              hanging    == Repeat(SP, hangingLen)
              body       == ItemBody(rest0, lines)
          IN  << head \o wrapText(body, Max(MinWrapWidth, wd - hangingLen), hanging) >>
        ELSE IF mDef.ok THEN
          \* Definition list item with hanging indent after "Term:: "
          LET term    == Trim(mDef.marker)
              head    == mDef.indent \o term \o << ":", ":", SP >>
              hanging == Repeat(SP, Len(head))
              joined  == ItemBody(mDef.rest, lines)
          IN  << head \o wrapText(joined, Max(MinWrapWidth, wd - Len(hanging)), hanging) >>
        ELSE IF \E k \in 1..Len(lines) : HARD_BREAK_RE(lines[k]) THEN
          \* Respect hard line breaks (trailing " +")
          lines
        ELSE
          \* Normal paragraph
          LET joined == Normalize(Join([k \in 1..Len(lines) |-> Trim(lines[k])], << SP >>))
          IN  IF joined = << >> THEN << << >> >>
              ELSE SplitChar(wrapText(joined, wd, << >>), NL)

\* collectListItem: the structural boundaries at which the while loop breaks
ItemBoundary(line) ==
  LET t == Trim(line)
  IN  \/ BLANK_RE(line)
      \/ COMMENT_BLOCK_FENCE_RE(t)
      \/ TABLE_FENCE_RE(t)
      \/ FENCE_RE(t) \/ OPEN_BLOCK_RE(t)
      \/ HR_RE(t) \/ PAGE_RE(t)
      \/ TITLE_RE(line) \/ ATTR_RE(line) \/ BLOCK_TITLE_RE(line) \/ BLOCK_ATTR_RE(line)
      \/ ANCHOR_RE(line) \/ CONDITIONAL_RE(line) \/ INCLUDE_RE(line) \/ BLOCK_MACRO_RE(line)

\* collectListItem: a list/def-list line that is a sibling or parent (break)
\* rather than a nested child
ItemSibling(line, topIndent, topDepth) ==
  LET mList  == LIST_RE(line)
      mDef   == DEF_LIST_RE(line)
      indent == IF mList.ok THEN mList.indent ELSE mDef.indent
  IN  IF Len(indent) <= topIndent /\ mList.ok
      THEN markerDepth(mList.marker) <= topDepth
      ELSE Len(indent) <= topIndent /\ mDef.ok

\* collectListItem: the while loop from index j (0-based)
RECURSIVE CollectFrom(_, _, _, _, _, _)
CollectFrom(srcLines, j, lines, complex, topIndent, topDepth) ==
  IF j >= Len(srcLines) THEN [lines |-> lines, next |-> j, complex |-> complex]
  ELSE
    LET line == srcLines[j + 1]
    IN  IF ItemBoundary(line)
        THEN [lines |-> lines, next |-> j, complex |-> complex]
        ELSE IF CONTINUATION_LINE_RE(line)
        THEN [lines |-> Append(lines, line), next |-> j + 1, complex |-> TRUE]
        ELSE IF LIST_RE(line).ok \/ DEF_LIST_RE(line).ok
        THEN IF ItemSibling(line, topIndent, topDepth)
             THEN [lines |-> lines, next |-> j, complex |-> complex]
             ELSE CollectFrom(srcLines, j + 1, Append(lines, line), TRUE, topIndent, topDepth)
        ELSE IF INDENTED_CODE_RE(line)
        THEN CollectFrom(srcLines, j + 1, Append(lines, line), TRUE, topIndent, topDepth)
        ELSE CollectFrom(srcLines, j + 1, Append(lines, line), complex, topIndent, topDepth)

\* collectListItem that resumes one line too far
collectListItemSkipsLine(srcLines, k) ==
  LET firstLine == srcLines[k + 1]
      mTop == IF LIST_RE(firstLine).ok THEN LIST_RE(firstLine) ELSE DEF_LIST_RE(firstLine)
      r == IF ~ mTop.ok
           THEN [lines |-> << firstLine >>, next |-> k + 1, complex |-> FALSE]
           ELSE CollectFrom(srcLines, k + 1, << firstLine >>, FALSE,
                            Len(mTop.indent), markerDepth(mTop.marker))
  IN  [r EXCEPT !.next = Min(r.next + 1, Len(srcLines))]

\* collectListItem that never marks the item complex
collectListItemNeverComplex(srcLines, k) ==
  LET firstLine == srcLines[k + 1]
      mTop == IF LIST_RE(firstLine).ok THEN LIST_RE(firstLine) ELSE DEF_LIST_RE(firstLine)
      r    == CollectFrom(srcLines, k + 1, << firstLine >>, FALSE,
                          Len(mTop.indent), markerDepth(mTop.marker))
  IN  IF ~ mTop.ok
      THEN [lines |-> << firstLine >>, next |-> k + 1, complex |-> FALSE]
      ELSE [r EXCEPT !.complex = FALSE]

\* Collect a single list/def-list item starting at index k (0-based)
collectListItem(srcLines, k) ==
  LET firstLine == srcLines[k + 1]
      mTop == IF LIST_RE(firstLine).ok THEN LIST_RE(firstLine) ELSE DEF_LIST_RE(firstLine)
  IN  IF ~ mTop.ok
      THEN [lines |-> << firstLine >>, next |-> k + 1, complex |-> FALSE]
      ELSE CollectFrom(srcLines, k + 1, << firstLine >>, FALSE,
                       Len(mTop.indent), markerDepth(mTop.marker))

---------------------------------------------------------------------------
(* Main reflow: the scan state and the body of the for loop                *)

\* flush that drops the buffered paragraph
flushDropsPara(o, p, wd) == o

\* const flush = () => { ... }: the output after flushing paragraph p
flush(o, p, wd) == IF p = << >> THEN o ELSE o \o reflowParagraph(p, wd)

\* the scan state of reflowTextAdoc at the start of a call
ScanStart(text, wd) ==
  [src |-> SplitLines(text), width |-> wd, i |-> 0, out |-> << >>, para |-> << >>,
   inFence |-> FALSE, inOpen |-> FALSE, inTable |-> FALSE,
   inCommentBlock |-> FALSE, inLiteralPara |-> FALSE]

\* Structural single-line boundaries
StructuralLine(line) ==
  LET t == Trim(line)
  IN  \/ BLOCK_TITLE_RE(line) \/ BLOCK_ATTR_RE(line)
      \/ ANCHOR_RE(line) \/ CONDITIONAL_RE(line)
      \/ INCLUDE_RE(line) \/ BLOCK_MACRO_RE(line)
      \/ HR_RE(t) \/ PAGE_RE(t)

\* AdmonitionOut that passes no hanging prefix to wrapText
AdmonitionOutNoHanging(mAd, wd) ==
  LET prefix  == mAd.marker \o << ":", SP >>
      hanging == Repeat(SP, Len(prefix))
  IN  IF mAd.rest # << >>
      THEN prefix \o wrapText(Trim(mAd.rest), Max(MinWrapWidth, wd - Len(hanging)), << >>)
      ELSE prefix

\* Single-line admonition with hanging indent: the pushed string
AdmonitionOut(mAd, wd) ==
  LET prefix  == mAd.marker \o << ":", SP >>
      hanging == Repeat(SP, Len(prefix))
  IN  IF mAd.rest # << >>
      THEN prefix \o wrapText(Trim(mAd.rest), Max(MinWrapWidth, wd - Len(hanging)), hanging)
      ELSE prefix

\* One iteration of for (let i = 0; i < src.length; i++), for scan state st
\* with st.i < src.length; the result is the state at the next loop test.
LoopBody(st) ==
  LET line    == st.src[st.i + 1]
      t       == Trim(line)
      flushed == [st EXCEPT !.out = flush(st.out, st.para, st.width), !.para = << >>]
      \* out.push(l); continue;
      emit(r, l) == [r EXCEPT !.out = Append(r.out, l), !.i = r.i + 1]
      mAd     == ADMON_SINGLE_RE(line)
      item    == collectListItem(st.src, st.i)
  IN  \* Comment block toggle
      IF COMMENT_BLOCK_FENCE_RE(t)
        THEN [emit(flushed, line) EXCEPT !.inCommentBlock = ~ st.inCommentBlock]
      ELSE IF st.inCommentBlock THEN emit(st, line)
      \* Single-line comment
      ELSE IF LINE_COMMENT_RE(line) THEN emit(flushed, line)
      \* Structural single-line boundaries
      ELSE IF StructuralLine(line) THEN emit(flushed, line)
      \* Table fences
      ELSE IF TABLE_FENCE_RE(t)
        THEN [emit(flushed, line) EXCEPT !.inTable = ~ st.inTable]
      ELSE IF st.inTable THEN emit(st, line)
      \* Fences & open blocks
      ELSE IF FENCE_RE(t)
        THEN [emit(flushed, line) EXCEPT !.inFence = ~ st.inFence]
      ELSE IF OPEN_BLOCK_RE(t)
        THEN [emit(flushed, line) EXCEPT !.inOpen = ~ st.inOpen]
      \* Blank line -> end paragraph (normal or literal)
      ELSE IF BLANK_RE(line)
        THEN LET isLast == (st.i = Len(st.src) - 1)
                 r      == [flushed EXCEPT !.inLiteralPara = FALSE]
             IN  IF ~ (isLast /\ line = << >>)
                 THEN emit(r, << >>)
                 ELSE [r EXCEPT !.i = r.i + 1]
      \* Non-reflowable contexts and lines
      ELSE IF st.inFence \/ st.inOpen \/ TITLE_RE(line) \/ ATTR_RE(line)
        THEN emit(flushed, line)
      \* Literal paragraph (first non-blank line begins with a space)
      ELSE IF st.para = << >> /\ ~ st.inLiteralPara /\ LEADING_SPACE_LINE_RE(line)
        THEN [emit(flushed, line) EXCEPT !.inLiteralPara = TRUE]
      ELSE IF st.inLiteralPara THEN emit(st, line)
      \* Single-line admonition with hanging indent
      ELSE IF mAd.ok THEN emit(flushed, AdmonitionOut(mAd, st.width))
      \* Lists and definition lists: collect complete item
      ELSE IF LIST_RE(line).ok \/ DEF_LIST_RE(line).ok
        THEN [flushed EXCEPT
                !.out = flushed.out \o
                        (IF item.complex THEN item.lines
                         ELSE reflowParagraph(item.lines, st.width)),
                !.i = item.next]
      \* Indented code line (defensive)
      ELSE IF INDENTED_CODE_RE(line) THEN emit(flushed, line)
      \* Normal paragraph line -> accumulate
      ELSE [st EXCEPT !.para = Append(st.para, line), !.i = st.i + 1]

\* flush(); return out.join("\n") + (endsWithNL ? "\n" : "");
ReturnText(o, p, wd, nl) ==
  Join(flush(o, p, wd), << NL >>) \o (IF nl THEN << NL >> ELSE << >>)

\* const endsWithNL = /\r?\n$/.test(input)
EndsWithNL(text) == text # << >> /\ text[Len(text)] = NL

---------------------------------------------------------------------------
(* Inputs                                                                  *)

\* longest document, in lines
MaxLines == 3
\* longest text handed to wrapText, in words
MaxWords == 4
\* most lines the hard-split loop is followed for
MaxSplitLines == 24

\* the lines documents are made of
LinePool ==
  { << >>,                                   \* empty line
    << SP >>,                                \* whitespace-only line
    << "-", "-", "-", "-" >>,                \* generic fence
    << ".", ".", ".", "." >>,                \* generic fence (literal block)
    << "-", "-" >>,                          \* open block
    << "|", "=", "=", "=" >>,                \* table fence
    << "/", "/", "/", "/" >>,                \* comment block fence
    << "b", "b", "b" >>,                     \* prose
    << "b", "b", "b", SP, "-" >>,            \* prose ending in a short token
    << "-", SP, "c" >>,                      \* list item
    << "/", "/", SP, "x" >>                  \* line comment
  }

Widths == { 5, 9 }

RECURSIVE SeqsUpTo(_, _)
SeqsUpTo(S, n) ==
  IF n = 0 THEN { << >> }
  ELSE LET shorter == SeqsUpTo(S, n - 1)
       IN  shorter \cup { Append(q, x) : q \in { y \in shorter : Len(y) = n - 1 }, x \in S }

Documents ==
  { Join(d, << NL >>) \o tail :
      d \in SeqsUpTo(LinePool, MaxLines) \ { << >> }, tail \in { << >>, << NL >> } }

\* documents of 1..MaxLines lines of a pool, with and without a final newline
DocumentsOf(pool) ==
  { Join(d, << NL >>) \o tail :
      d \in SeqsUpTo(pool, MaxLines) \ { << >> }, tail \in { << >>, << NL >> } }

\* the lines documents of list items are made of
ItemPool ==
  { << >>,                                   \* empty line
    << "b", "b", "b" >>,                     \* prose / body text
    << "-", SP, "c" >>,                      \* list item
    << "-", "-", SP, "d" >>,                 \* list item, deeper marker
    << SP, SP, "-", SP, "f" >>,              \* list item, deeper indent
    << "a", ":", ":", SP, "b" >>,            \* definition-list item
    << "+" >>,                               \* continuation marker
    << TAB, "e" >>                           \* indented code
  }

\* the lines documents of paragraphs are made of
ParaPool ==
  { << >>,                                   \* empty line
    << "b", "b", "b" >>,                     \* prose
    << "b", "b", "b", SP, "+" >>,            \* prose with a hard line break
    << SP, "x" >>,                           \* literal paragraph (leading space)
    << SP, "/", "/", SP, "x" >>,             \* indented line comment
    << "M", ".", SP, "x" >>,                 \* prose that begins with an initial
    << "M", ".", SP, "a", ":", ":", SP, "b" >>, \* definition-list item, term "M. a"
    << "-", SP, "c" >>,                      \* list item
    << "-", "-", "-", "-" >>                 \* generic fence
  }

\* a body longer than the floor of the wrap width: two words of 10 letters
LongBody == Repeat("a", 10) \o << SP >> \o Repeat("b", 10)

\* the lines documents of constructs with a hanging indent are made of
HangPool ==
  { << >>,                                                   \* empty line
    << "c", "c" >>,                                          \* further body text
    << "-", SP >> \o LongBody,                               \* list item
    << "-", SP, "[", "x", "]", SP >> \o LongBody,            \* checklist item
    << "-", SP, "[", "x", "]", SP, SP, SP, SP >> \o LongBody, \* checklist item, wide gap
    << "T", ":", ":", SP >> \o LongBody,                     \* definition-list item
    << "T", "I", "P", ":", SP >> \o LongBody                 \* admonition
  }

HangWidths == { 9, 26 }

WordPool ==
  { << "a", "b" >>,
    << "a", "b", "c" >>,
    << "a", "b", "c", "d", "e" >>,
    << "h", ":", "/", "/", "a", "b", "c" >> }

WrapWidths == { -1, 0, 1, 3, 6, 8 }

WrapTexts == { Join(q, << SP >>) : q \in SeqsUpTo(WordPool, MaxWords) \ { << >> } }

---------------------------------------------------------------------------
(* The editor glue: src/extension.js                                       *)

\* new vscode.Position(line, character), 0-based
Position(l, c) == [line |-> l, character |-> c]

\* new vscode.Range(startLine, startCharacter, endLine, endCharacter)
Range(sl, sc, el, ec) == [start |-> Position(sl, sc), end |-> Position(el, ec)]

\* sel.isEmpty
isEmpty(r) == r.start = r.end

\* document.lineCount and document.lineAt(n).text
lineCount(doc) == Len(doc)
lineAt(doc, n) == doc[n + 1]

\* document.getText(range): the lines of the range joined by the line end
getText(doc, r) ==
  LET n == r.end.line - r.start.line + 1
      piece(k) ==
        LET line == lineAt(doc, r.start.line + k - 1)
            from == IF k = 1 THEN r.start.character + 1 ELSE 1
            to   == IF k = n THEN r.end.character ELSE Len(line)
        IN  SubSeq(line, from, to)
  IN  IF lineCount(doc) = 0 THEN << >>
      ELSE Join([k \in 1..n |-> piece(k)], << NL >>)

fullDocumentRange(doc) ==
  IF lineCount(doc) = 0 THEN Range(0, 0, 0, 0)
  ELSE LET last == lineCount(doc) - 1
           lastLen == Len(lineAt(doc, last))
       IN  Range(0, 0, last, lastLen)

\* while (s > 0 && !/^\s*$/.test(document.lineAt(s - 1).text)) s--;
RECURSIVE ParagraphUp(_, _)
ParagraphUp(doc, s) ==
  IF s > 0 /\ ~ BLANK_RE(lineAt(doc, s - 1)) THEN ParagraphUp(doc, s - 1) ELSE s

\* while (e < last && !/^\s*$/.test(document.lineAt(e + 1).text)) e++;
RECURSIVE ParagraphDown(_, _, _)
ParagraphDown(doc, e, last) ==
  IF e < last /\ ~ BLANK_RE(lineAt(doc, e + 1)) THEN ParagraphDown(doc, e + 1, last) ELSE e

paragraphRangeAt(doc, line) ==
  LET last == Max(0, lineCount(doc) - 1)
      s0 == Max(0, Min(line, last))
      s == ParagraphUp(doc, s0)
      e == ParagraphDown(doc, s0, last)
      endChar == Len(lineAt(doc, e))
  IN  Range(s, 0, e, endChar)

MinWrapColumn == 20
MaxWrapColumn == 200
DefaultWrapColumn == 80

\* getWrapColumn(), for the configured value col
getWrapColumn(col) == Max(MinWrapColumn, Min(MaxWrapColumn, col))

\* edit.replace(range, text) / vscode.TextEdit.replace(range, text)
Replace(r, text) == [range |-> r, newText |-> text]

\* no command or provider has been called
HostIdle ==
  /\ document = << >> /\ wrapColumn = 0 /\ editor = FALSE /\ selections = << >>
  /\ range = Range(0, 0, 0, 0) /\ target = Range(0, 0, 0, 0)
  /\ entry = "none" /\ edits = << >> /\ hpc = "idle"

---------------------------------------------------------------------------
(* The scanner as a state machine                                          *)

ScanState ==
  [src |-> src, width |-> width, i |-> i, out |-> out, para |-> para,
   inFence |-> inFence, inOpen |-> inOpen, inTable |-> inTable,
   inCommentBlock |-> inCommentBlock, inLiteralPara |-> inLiteralPara]

SetScanState(st) ==
  /\ src' = st.src
  /\ i' = st.i
  /\ out' = st.out
  /\ para' = st.para
  /\ inFence' = st.inFence
  /\ inOpen' = st.inOpen
  /\ inTable' = st.inTable
  /\ inCommentBlock' = st.inCommentBlock
  /\ inLiteralPara' = st.inLiteralPara

WrapIdle ==
  /\ wtext = << >> /\ wwidth = 0 /\ whang = << >> /\ words = << >> /\ widx = 0
  /\ wlines = << >> /\ wline = << >> /\ ws = << >> /\ wpc = "idle" /\ wresult = << >>

ScanIdle ==
  /\ input = << >> /\ width = 0 /\ src = << >> /\ endsWithNL = FALSE /\ i = 0
  /\ out = << >> /\ para = << >> /\ inFence = FALSE /\ inOpen = FALSE
  /\ inTable = FALSE /\ inCommentBlock = FALSE /\ inLiteralPara = FALSE
  /\ pc = "idle" /\ pass = 0 /\ first = << >> /\ result = << >>

\* reflowTextAdoc(input, width) entered: lines 208-223
Init ==
  /\ input \in Documents
  /\ width \in Widths
  /\ src = SplitLines(input)
  /\ endsWithNL = EndsWithNL(input)
  /\ i = 0 /\ out = << >> /\ para = << >>
  /\ inFence = FALSE /\ inOpen = FALSE /\ inTable = FALSE
  /\ inCommentBlock = FALSE /\ inLiteralPara = FALSE
  /\ pc = "scan" /\ pass = 1 /\ first = << >> /\ result = << >>
  /\ WrapIdle
  /\ HostIdle

\* one iteration of the main for loop
ScanLine ==
  /\ pc = "scan"
  /\ i < Len(src)
  /\ SetScanState(LoopBody(ScanState))
  /\ UNCHANGED << input, width, endsWithNL, pc, pass, first, result, wrapVars, hostVars >>

\* loop exit: flush and return
Return ==
  /\ pc = "scan"
  /\ i >= Len(src)
  /\ result' = ReturnText(out, para, width, endsWithNL)
  /\ out' = flush(out, para, width)
  /\ para' = << >>
  /\ pc' = "done"
  /\ UNCHANGED << input, width, src, endsWithNL, i, inFence, inOpen, inTable,
                  inCommentBlock, inLiteralPara, pass, first, wrapVars, hostVars >>

\* fmt: const out2 = reflowTextAdoc(out, width)
SecondPass ==
  /\ pc = "done"
  /\ pass = 1
  /\ first' = result
  /\ input' = result
  /\ endsWithNL' = EndsWithNL(result)
  /\ SetScanState(ScanStart(result, width))
  /\ result' = << >>
  /\ pass' = 2
  /\ pc' = "scan"
  /\ UNCHANGED << width, wrapVars, hostVars >>

Next == ScanLine \/ Return \/ SecondPass

Spec == Init /\ [][Next]_vars

\* reflowTextAdoc(input, width) entered, for a document of docs and a width of widths
ScanInit(docs, widths) ==
  /\ input \in docs
  /\ width \in widths
  /\ src = SplitLines(input)
  /\ endsWithNL = EndsWithNL(input)
  /\ i = 0 /\ out = << >> /\ para = << >>
  /\ inFence = FALSE /\ inOpen = FALSE /\ inTable = FALSE
  /\ inCommentBlock = FALSE /\ inLiteralPara = FALSE
  /\ pc = "scan" /\ pass = 1 /\ first = << >> /\ result = << >>
  /\ WrapIdle
  /\ HostIdle

\* the scanner over documents of prose, hard-break and literal paragraphs
ParaInit == ScanInit(DocumentsOf(ParaPool), Widths)
ParaSpec == ParaInit /\ [][Next]_vars

\* the scanner over documents of constructs with a hanging indent
HangInit == ScanInit(DocumentsOf(HangPool), HangWidths)
HangSpec == HangInit /\ [][Next]_vars

\* the scanner over documents of list and definition-list items
ItemInit == ScanInit(DocumentsOf(ItemPool), Widths)
ItemSpec == ItemInit /\ [][Next]_vars

\* the lines documents of paragraphs between blocks are made of
FlushPool ==
  { << >>,                                   \* empty line
    << "b", "b", "b" >>,                     \* prose
    << SP, "x" >>,                           \* literal paragraph line
    << "-", "-", "-", "-" >>,                \* generic fence
    << "-", "-" >>,                          \* open block
    << "|", "=", "=", "=" >>,                \* table fence
    << "/", "/", "/", "/" >>,                \* comment block fence
    << ".", "T" >>,                          \* block title
    << "-", SP, "c" >>                       \* list item
  }

FlushInit == ScanInit(DocumentsOf(FlushPool), Widths)

FlushSpec == FlushInit /\ [][Next]_vars

---------------------------------------------------------------------------
(* The word loop of wrapText as a state machine                            *)

\* wrapText(text, width, hangingPrefix) entered: lines 68-70
WInit ==
  /\ wtext \in WrapTexts
  /\ wwidth \in WrapWidths
  /\ whang \in { << >>, << SP, SP >> }
  /\ words = Tokens(wtext)
  /\ widx = 0 /\ wlines = << >> /\ wline = << >> /\ ws = << >>
  /\ wpc = "loop" /\ wresult = << >>
  /\ ScanIdle
  /\ HostIdle

\* for (const w of words): a word that is placed on a line
WPlace ==
  /\ wpc = "loop"
  /\ widx < Len(words)
  /\ ~ IsHardSplit(words[widx + 1], wwidth)
  /\ LET r == WrapPlace(wlines, wline, words[widx + 1], wwidth)
     IN  wlines' = r.lines /\ wline' = r.line
  /\ widx' = widx + 1
  /\ UNCHANGED << wtext, wwidth, whang, words, ws, wpc, wresult, scanVars, hostVars >>

\* for (const w of words): a long non-URL word enters the hard split
WSplitBegin ==
  /\ wpc = "loop"
  /\ widx < Len(words)
  /\ IsHardSplit(words[widx + 1], wwidth)
  /\ wlines' = PushLine(wlines, wline)
  /\ wline' = << >>
  /\ ws' = words[widx + 1]
  /\ wpc' = "split"
  /\ UNCHANGED << wtext, wwidth, whang, words, widx, wresult, scanVars, hostVars >>

\* while (s.length > width) { lines.push(s.slice(0, width)); s = s.slice(width); }
WSplitStep ==
  /\ wpc = "split"
  /\ Len(ws) > wwidth
  /\ Len(wlines) < MaxSplitLines
  /\ wlines' = Append(wlines, Slice(ws, 0, wwidth))
  /\ ws' = SliceFrom(ws, wwidth)
  /\ UNCHANGED << wtext, wwidth, whang, words, widx, wline, wpc, wresult, scanVars, hostVars >>

\* line = s; continue;
WSplitEnd ==
  /\ wpc = "split"
  /\ Len(ws) <= wwidth
  /\ wline' = ws
  /\ ws' = << >>
  /\ widx' = widx + 1
  /\ wpc' = "loop"
  /\ UNCHANGED << wtext, wwidth, whang, words, wlines, wresult, scanVars, hostVars >>

\* if (line) lines.push(line); return lines.map(...).join("\n");
WReturn ==
  /\ wpc = "loop"
  /\ widx = Len(words)
  /\ wlines' = PushLine(wlines, wline)
  /\ wresult' = WrapJoin(PushLine(wlines, wline), whang)
  /\ wpc' = "done"
  /\ UNCHANGED << wtext, wwidth, whang, words, widx, wline, ws, scanVars, hostVars >>

WNext == WPlace \/ WSplitBegin \/ WSplitStep \/ WSplitEnd \/ WReturn

WrapSpec == WInit /\ [][WNext]_vars

---------------------------------------------------------------------------
(* The commands and formatting providers as a state machine                *)

\* the lines buffers are made of
BufferPool ==
  { << >>,                                   \* empty line
    << "b", "b", "b" >>,                     \* prose
    << "-", SP, "c" >> }                     \* list item

\* a TextDocument has at least one line
Buffers == SeqsUpTo(BufferPool, MaxLines) \ { << >> }

\* values of the setting: below the clamp, the default, above the clamp
WrapColumns == { 9, DefaultWrapColumn, 300 }

MaxSelections == 2

\* the positions at the start and at the end of the lines of a document
Positions(doc) ==
  UNION { { Position(l, 0), Position(l, Len(lineAt(doc, l))) } :
            l \in 0..(lineCount(doc) - 1) }

\* position a is not after position b
NotAfter(a, b) == a.line < b.line \/ (a.line = b.line /\ a.character <= b.character)

\* the ranges and selections of a document: start is not after end
Ranges(doc) ==
  { Range(ab[1].line, ab[1].character, ab[2].line, ab[2].character) :
      ab \in { q \in Positions(doc) \X Positions(doc) : NotAfter(q[1], q[2]) } }

\* an editor has at least one selection
SelectionLists(doc) == SeqsUpTo(Ranges(doc), MaxSelections) \ { << >> }

Commands == { "reflowSelection", "reflowDocument" }
Providers == { "provideDocumentFormattingEdits", "provideDocumentRangeFormattingEdits" }

\* a command or a provider is called on a document
HostInit ==
  /\ document \in Buffers
  /\ wrapColumn \in WrapColumns
  /\ entry \in Commands \cup Providers
  /\ editor \in (IF entry \in Commands THEN BOOLEAN ELSE { TRUE })
  /\ selections \in (IF entry = "reflowSelection" /\ editor
                     THEN SelectionLists(document) ELSE { << >> })
  /\ range \in (IF entry = "provideDocumentRangeFormattingEdits"
                THEN Ranges(document) ELSE { Range(0, 0, 0, 0) })
  /\ target = Range(0, 0, 0, 0)
  /\ edits = << >>
  /\ hpc = "called"
  /\ ScanIdle
  /\ WrapIdle

\* reflowTextAdoc(document.getText(r), width) is entered; the call then runs
\* as the steps ScanLine and Return of the scanner
CallEngine(r) ==
  LET text == getText(document, r)
  IN  /\ target' = r
      /\ input' = text
      /\ width' = getWrapColumn(wrapColumn)
      /\ endsWithNL' = EndsWithNL(text)
      /\ SetScanState(ScanStart(text, getWrapColumn(wrapColumn)))
      /\ pc' = "scan" /\ pass' = 1 /\ first' = << >> /\ result' = << >>
      /\ hpc' = "engine"

\* the call of reflowTextAdoc has returned to the entry point e
EngineReturned(e) == hpc = "engine" /\ entry = e /\ pc = "done"

\* const range = sel.isEmpty ? paragraphRangeAt(document, sel.start.line) : sel;
SelectionRange(sel) ==
  IF isEmpty(sel) THEN paragraphRangeAt(document, sel.start.line) ELSE sel

\* adocReflow.reflowSelection, lines 36-43: up to the first call of the engine
reflowSelectionCall ==
  /\ hpc = "called"
  /\ entry = "reflowSelection"
  /\ IF ~ editor
     THEN hpc' = "returned" /\ UNCHANGED << target, scanVars >>
     ELSE CallEngine(SelectionRange(selections[1]))
  /\ UNCHANGED << document, wrapColumn, editor, selections, range, entry, edits,
                  wrapVars >>

\* adocReflow.reflowSelection, line 44: edit.replace(range, out), then the
\* next selection of the forEach
reflowSelectionReplace ==
  /\ EngineReturned("reflowSelection")
  /\ edits' = Append(edits, Replace(target, result))
  /\ IF Len(edits) + 1 < Len(selections)
     THEN CallEngine(SelectionRange(selections[Len(edits) + 2]))
     ELSE hpc' = "returned" /\ UNCHANGED << target, scanVars >>
  /\ UNCHANGED << document, wrapColumn, editor, selections, range, entry, wrapVars >>

\* adocReflow.reflowDocument, lines 51-56: up to the call of the engine
reflowDocumentCall ==
  /\ hpc = "called"
  /\ entry = "reflowDocument"
  /\ IF ~ editor
     THEN hpc' = "returned" /\ UNCHANGED << target, scanVars >>
     ELSE CallEngine(fullDocumentRange(document))
  /\ UNCHANGED << document, wrapColumn, editor, selections, range, entry, edits,
                  wrapVars >>

\* adocReflow.reflowDocument, line 57: b.replace(all, out)
reflowDocumentReplace ==
  /\ EngineReturned("reflowDocument")
  /\ edits' = << Replace(target, result) >>
  /\ hpc' = "returned"
  /\ UNCHANGED << document, wrapColumn, editor, selections, range, entry, target,
                  scanVars, wrapVars >>

\* provideDocumentFormattingEdits(document), lines 63-66
provideDocumentFormattingEditsCall ==
  /\ hpc = "called"
  /\ entry = "provideDocumentFormattingEdits"
  /\ CallEngine(fullDocumentRange(document))
  /\ UNCHANGED << document, wrapColumn, editor, selections, range, entry, edits,
                  wrapVars >>

\* provideDocumentFormattingEdits(document), lines 67-68
provideDocumentFormattingEditsReturn ==
  /\ EngineReturned("provideDocumentFormattingEdits")
  /\ LET original == getText(document, target)
         formatted == result
     IN  edits' = IF formatted = original THEN << >>
                  ELSE << Replace(target, formatted) >>
  /\ hpc' = "returned"
  /\ UNCHANGED << document, wrapColumn, editor, selections, range, entry, target,
                  scanVars, wrapVars >>

\* provideDocumentRangeFormattingEdits(document, range), lines 75-80
provideDocumentRangeFormattingEditsCall ==
  /\ hpc = "called"
  /\ entry = "provideDocumentRangeFormattingEdits"
  /\ LET fullLinesRange == Range(range.start.line, 0, range.end.line,
                                 Len(lineAt(document, range.end.line)))
     IN  CallEngine(fullLinesRange)
  /\ UNCHANGED << document, wrapColumn, editor, selections, range, entry, edits,
                  wrapVars >>

\* provideDocumentRangeFormattingEdits(document, range), lines 81-82
provideDocumentRangeFormattingEditsReturn ==
  /\ EngineReturned("provideDocumentRangeFormattingEdits")
  /\ LET original == getText(document, target)
         formatted == result
     IN  edits' = IF formatted = original THEN << >>
                  ELSE << Replace(target, formatted) >>
  /\ hpc' = "returned"
  /\ UNCHANGED << document, wrapColumn, editor, selections, range, entry, target,
                  scanVars, wrapVars >>

HostNext ==
  \/ reflowSelectionCall
  \/ reflowSelectionReplace
  \/ reflowDocumentCall
  \/ reflowDocumentReplace
  \/ provideDocumentFormattingEditsCall
  \/ provideDocumentFormattingEditsReturn
  \/ provideDocumentRangeFormattingEditsCall
  \/ provideDocumentRangeFormattingEditsReturn
  \/ ScanLine
  \/ Return

HostSpec == HostInit /\ [][HostNext]_vars


---------------------------------------------------------------------------
(* Vocabulary of the properties                                            *)

IsSuffix(a, b) == Len(a) <= Len(b) /\ SubSeq(b, Len(b) - Len(a) + 1, Len(b)) = a
IsInfix(a, b) ==
  \E k \in 0..(Len(b) - Len(a)) : SubSeq(b, k + 1, k + Len(a)) = a

\* the block modes that are active in scan state st
ModesOf(st) ==
  { m \in { "fence", "open", "table", "comment" } :
      \/ m = "fence" /\ st.inFence
      \/ m = "open" /\ st.inOpen
      \/ m = "table" /\ st.inTable
      \/ m = "comment" /\ st.inCommentBlock }
ActiveModes == ModesOf(ScanState)

\* the kind of toggle a line is by its text alone
ToggleKind(line) ==
  LET t == Trim(line)
  IN  IF COMMENT_BLOCK_FENCE_RE(t) THEN "comment"
      ELSE IF TABLE_FENCE_RE(t) THEN "table"
      ELSE IF FENCE_RE(t) THEN "fence"
      ELSE IF OPEN_BLOCK_RE(t) THEN "open"
      ELSE "none"

\* the scan state of the current pass when its loop index first reaches idx
RECURSIVE ScanTo(_, _)
ScanTo(st, idx) ==
  IF st.i >= idx \/ st.i >= Len(st.src) THEN st ELSE ScanTo(LoopBody(st), idx)
AtIndex(idx) == ScanTo(ScanStart(input, width), idx)

\* the line at index idx (0-based) opens block mode m: no mode is active when
\* the scan reaches it, and m is active after it
Opens(idx, m) ==
  LET st == AtIndex(idx)
  IN  /\ st.i = idx
      /\ idx < Len(src)
      /\ ModesOf(st) = {}
      /\ ModesOf(LoopBody(st)) = {m}

\* the first index after idx whose line is a toggle of kind m, -1 if none
NextToggle(idx, m) ==
  LET later == { l \in (idx + 1)..(Len(src) - 1) : ToggleKind(src[l + 1]) = m }
  IN  IF later = {} THEN -1
      ELSE CHOOSE l \in later : \A l2 \in later : l <= l2

\* number of newlines the text ends with
TrailingNewlines(text) == TrailRun(text, { NL })

Scanning == pc = "scan" /\ i < Len(src)
Done == pc = "done"

---------------------------------------------------------------------------
(* Properties of the scanner                                               *)

\* C1  Idempotence: reflowing the output of a reflow at the same width
\* returns that output unchanged.
C1_Idempotent == (Done /\ pass = 2) => result = first

\* C2  Verbatim round-trip: the lines strictly between a line that opens a
\* block mode and the next toggle line of the same kind appear in the output
\* unchanged, as consecutive whole lines.
C2_VerbatimBlock ==
  Done =>
    \A idx \in 0..(Len(src) - 1) : \A m \in { "fence", "open", "table", "comment" } :
      (Opens(idx, m) /\ NextToggle(idx, m) > idx + 1) =>
        IsInfix(<< NL >> \o Join(SubSeq(src, idx + 2, NextToggle(idx, m)), << NL >>) \o << NL >>,
                result)

\* C6  Trailing line terminator: an input that ends with a newline gives an
\* output that ends with exactly one newline; an input that does not gives an
\* output that ends with none.
C6_TrailingNewline ==
  Done => TrailingNewlines(result) = (IF EndsWithNL(input) THEN 1 ELSE 0)

\* C7  Single active block mode: at most one of the four modes is active at
\* every point of the scan.
C7_SingleMode == Cardinality(ActiveModes) <= 1

\* C8  No nesting of toggles: with one mode active, a toggle line of another
\* kind is emitted as it is and changes no mode; a toggle line of the active
\* kind returns to no mode.
C8_NoNesting ==
  [][ (Scanning /\ Cardinality(ActiveModes) = 1 /\ ToggleKind(src[i + 1]) # "none") =>
        IF ActiveModes = { ToggleKind(src[i + 1]) }
        THEN ActiveModes' = {}
        ELSE ActiveModes' = ActiveModes /\ out' = Append(out, src[i + 1]) ]_vars

\* C9  Unterminated block: when a line opens a block mode and no toggle line
\* of that kind follows, the mode is still active at the end and the output
\* ends with the input from that line on, unchanged.
C9_Unterminated ==
  Done =>
    \A idx \in 0..(Len(src) - 1) : \A m \in { "fence", "open", "table", "comment" } :
      (Opens(idx, m) /\ NextToggle(idx, m) = -1) =>
        /\ m \in ActiveModes
        /\ IsSuffix(Join(SubSeq(src, idx + 1, Len(src)), << NL >>), result)

\* a trimmed line of four or more repetitions of one character of . _ = * + -
IsDelimiterRun(t) == Len(t) >= 4 /\ t[1] \in FenceChars /\ AllIn(t, { t[1] })

\* C10  Generic fence recognition: with no block mode active, a line toggles
\* Fence mode exactly when its trimmed text is four or more repetitions of one
\* character of . _ = * + -
C10_FenceRecognition ==
  [][ (Scanning /\ ActiveModes = {}) =>
        ((inFence' # inFence) <=> IsDelimiterRun(Trim(src[i + 1]))) ]_vars

\* a line whose trimmed text starts with // and is not the fence ////
IsLineComment(line) ==
  StartsWith(Trim(line), Str2("/", "/")) /\ Trim(line) # Str4("/", "/", "/", "/")

\* line is one whole line of text
IsLineOf(line, text) == IsInfix(<< NL >> \o line \o << NL >>, << NL >> \o text \o << NL >>)

\* C11  Line-comment pass-through: with no block mode active, a line comment
\* of the input is a whole unchanged line of the output, whatever precedes it
\* (prose, list item, definition-list item): it is merged with nothing.
C11_CommentPassThrough ==
  Done =>
    \A idx \in 0..(Len(src) - 1) :
      (IsLineComment(src[idx + 1]) /\ ModesOf(AtIndex(idx)) = {}) =>
        IsLineOf(src[idx + 1], result)

\* in scan state st the scanner takes the line at st.i as the start of a list
\* or definition-list item: no block mode and no literal paragraph is active
\* and no kind of higher precedence applies to the line
ItemStart(st) ==
  LET line == st.src[st.i + 1]
  IN  /\ ModesOf(st) = {}
      /\ ~ st.inLiteralPara
      /\ ToggleKind(line) = "none"
      /\ ~ LINE_COMMENT_RE(line)
      /\ ~ StructuralLine(line)
      /\ ~ TITLE_RE(line) /\ ~ ATTR_RE(line)
      /\ ~ (st.para = << >> /\ LEADING_SPACE_LINE_RE(line))
      /\ ~ ADMON_SINGLE_RE(line).ok
      /\ (LIST_RE(line).ok \/ DEF_LIST_RE(line).ok)

\* the scan of the current pass stands at index idx, at the start of an item
ItemStartAt(idx) ==
  idx < Len(src) /\ AtIndex(idx).i = idx /\ ItemStart(AtIndex(idx))

\* among the lines of an item after its first: a nested sub-item, a lone +
\* continuation line or an indented-code line
HasComplexLine(lines) ==
  \E k \in 2..Len(lines) :
    \/ CONTINUATION_LINE_RE(lines[k])
    \/ LIST_RE(lines[k]).ok \/ DEF_LIST_RE(lines[k]).ok
    \/ INDENTED_CODE_RE(lines[k])

\* C12  Complex list items are verbatim: the collected lines of a list or
\* definition-list item that holds a nested sub-item, a lone + continuation
\* line or an indented-code line are consecutive unchanged lines of the
\* output; so an item that was wrapped holds none of them.
C12_ComplexVerbatim ==
  Done =>
    \A idx \in 0..(Len(src) - 1) :
      (ItemStartAt(idx) /\ HasComplexLine(collectListItem(src, idx).lines)) =>
        IsInfix(collectListItem(src, idx).lines, out)

\* C12 witness: a complex item was emitted line for line, its last collected
\* line being a nested sub-item, a continuation marker or indented code
C12_Witness ==
  /\ Done /\ pass = 1
  /\ \E idx \in 0..(Len(src) - 1) :
       /\ ItemStartAt(idx)
       /\ Len(collectListItem(src, idx).lines) = MaxLines
       /\ HasComplexLine(collectListItem(src, idx).lines)
       /\ IsInfix(collectListItem(src, idx).lines, out)

\* a line that ends with whitespace followed by +
EndsWithHardBreak(line) ==
  Len(line) >= 2 /\ line[Len(line)] = "+" /\ line[Len(line) - 1] \in WhiteSpace

\* a line of no kind but prose
PlainProse(line) ==
  /\ ~ BLANK_RE(line)
  /\ ToggleKind(line) = "none"
  /\ ~ LINE_COMMENT_RE(line) /\ ~ StructuralLine(line)
  /\ ~ TITLE_RE(line) /\ ~ ATTR_RE(line)
  /\ line[1] \notin WhiteSpace
  /\ ~ ADMON_SINGLE_RE(line).ok
  /\ ~ LIST_RE(line).ok /\ ~ DEF_LIST_RE(line).ok

\* C13  Hard-break preservation: when a prose paragraph in which at least one
\* line ends with whitespace followed by + is flushed, its lines are appended
\* to the output one by one, unchanged, at every width.
C13_HardBreak ==
  [][ (pc = "scan" /\ para # << >> /\ para' = << >>
         /\ \E k \in 1..Len(para) : EndsWithHardBreak(para[k])) =>
        /\ Len(out') >= Len(out) + Len(para)
        /\ SubSeq(out', Len(out) + 1, Len(out) + Len(para)) = para ]_vars

\* C13 witness: a paragraph of plain prose lines with a hard break was
\* returned line for line although its words fit one line of the width
C13_Witness ==
  /\ Done /\ pass = 1
  /\ Len(src) >= 2
  /\ \A k \in 1..Len(src) : PlainProse(src[k])
  /\ \E k \in 1..Len(src) : EndsWithHardBreak(src[k])
  /\ Len(Join(src, << SP >>)) <= width
  /\ out = src
  /\ result = input

\* the index of the first blank line after idx, Len(src) if there is none
NextBlank(idx) ==
  LET later == { l \in (idx + 1)..(Len(src) - 1) : BLANK_RE(src[l + 1]) }
  IN  IF later = {} THEN Len(src)
      ELSE CHOOSE l \in later : \A l2 \in later : l <= l2

\* the lines from index idx up to the next blank line
RunFrom(idx) == SubSeq(src, idx + 1, NextBlank(idx))

\* a line that begins with exactly one space followed by a non-space character
OneLeadingSpace(line) == Len(line) >= 2 /\ line[1] = SP /\ line[2] \notin WhiteSpace

\* the scan of the current pass meets the line at idx with no paragraph open
\* and no block mode active
MetWithNoParagraph(idx) ==
  /\ idx < Len(src)
  /\ AtIndex(idx).i = idx
  /\ AtIndex(idx).para = << >>
  /\ ModesOf(AtIndex(idx)) = {}

NoEarlierKind(line) ==
  ToggleKind(line) = "none" /\ ~ LINE_COMMENT_RE(line) /\ ~ StructuralLine(line)

UpperInitial(line) ==
  Len(line) >= 3 /\ line[1] \in Upper /\ line[2] = "." /\ line[3] \in WhiteSpace

\* the lines of the entries this step appends to out
AppendedLines == SplitChar(Join(SubSeq(out', Len(out) + 1, Len(out')), << NL >>), NL)

\* The rule of the uppercase initial for one step.  exceptDefList: a line that
\* is the start of a definition-list item is not required to join the paragraph.
UpperInitialRule(exceptDefList) ==
  /\ (Scanning /\ UpperInitial(src[i + 1])) =>
       /\ ~ LIST_RE(src[i + 1]).ok
       /\ (/\ ActiveModes = {} /\ para # << >>
           /\ ~ (exceptDefList /\ DEF_LIST_RE(src[i + 1]).ok)) =>
             para' = Append(para, src[i + 1])
  /\ (/\ pc = "scan" /\ para' = << >>
      /\ \E k \in 2..Len(para) : UpperInitial(para[k])
      /\ (~ Scanning \/ BLANK_RE(src[i + 1]))) =>
       \A k \in 1..Len(AppendedLines) :
         \/ AppendedLines[k] = << >>
         \/ AppendedLines[k][1] # SP
         \/ \E j \in 1..Len(para) : para[j] = AppendedLines[k]

\* C17 as stated  Uppercase-initial guard: a line that begins with an
\* uppercase letter, . and whitespace is never a list item start; after a
\* prose line it joins the paragraph, which gets no hanging indent.
C17_UpperInitialAlways == [][UpperInitialRule(FALSE)]_vars

\* C17  Uppercase-initial guard, amended: such a line is never a list item
\* start; after a prose line it joins the paragraph, which gets no hanging
\* indent, unless the line is the start of a definition-list item (a term
\* followed by ::).
C17_UpperInitial == [][UpperInitialRule(TRUE)]_vars

\* C17 witness: a prose line and a line that begins with an initial were
\* joined into one output line
C17_Witness ==
  /\ Done /\ pass = 1
  /\ \E k \in 1..(Len(src) - 1) :
       /\ PlainProse(src[k])
       /\ UpperInitial(src[k + 1]) /\ ~ DEF_LIST_RE(src[k + 1]).ok
       /\ IsLineOf(src[k] \o << SP >> \o src[k + 1], result)

\* in scan state st the scanner takes the line at st.i as a single-line
\* admonition
AdmonStart(st) ==
  LET line == st.src[st.i + 1]
  IN  /\ ModesOf(st) = {}
      /\ ~ st.inLiteralPara
      /\ NoEarlierKind(line)
      /\ ~ BLANK_RE(line)
      /\ ~ TITLE_RE(line) /\ ~ ATTR_RE(line)
      /\ ~ (st.para = << >> /\ LEADING_SPACE_LINE_RE(line))
      /\ ADMON_SINGLE_RE(line).ok

\* the scan of the current pass stands at index idx, at the start of a
\* construct that is wrapped with a hanging indent: a list or definition-list
\* item that is not complex, or a single-line admonition
HangingStartAt(idx) ==
  /\ idx < Len(src)
  /\ AtIndex(idx).i = idx
  /\ \/ ItemStart(AtIndex(idx)) /\ ~ HasComplexLine(collectListItem(src, idx).lines)
     \/ AdmonStart(AtIndex(idx))

\* the lines of the one output entry the construct at idx was emitted as
EmittedAt(idx) == SplitChar(out[Len(LoopBody(AtIndex(idx)).out)], NL)

\* a checklist token [ ], [x], [X] or [-] followed by whitespace begins s
HasChecklist(s) ==
  /\ Len(s) >= 4
  /\ s[1] = "[" /\ s[2] \in { SP, "x", "X", "-" } /\ s[3] = "]"
  /\ s[4] \in WhiteSpace

\* The head of the construct that begins with line.  oneSpace: the checklist
\* token is followed by one space; otherwise by the whitespace that follows
\* it in the line.
HeadOf(line, oneSpace) ==
  LET mAd   == ADMON_SINGLE_RE(line)
      mList == LIST_RE(line)
      mDef  == DEF_LIST_RE(line)
      after == LeadRun(SubSeq(mList.rest, 4, Len(mList.rest)), WhiteSpace)
  IN  IF mAd.ok THEN mAd.marker \o << ":", SP >>
      ELSE IF mList.ok
        THEN mList.indent \o mList.marker \o << SP >> \o
             (IF ~ HasChecklist(mList.rest) THEN << >>
              ELSE IF oneSpace THEN SubSeq(mList.rest, 1, 3) \o << SP >>
              ELSE SubSeq(mList.rest, 1, 3 + after))
      ELSE mDef.indent \o Trim(mDef.marker) \o << ":", ":", SP >>

\* the length of the hanging indent that goes with the head
HangOf(line, oneSpace) ==
  IF /\ ~ ADMON_SINGLE_RE(line).ok /\ LIST_RE(line).ok
     /\ HasChecklist(LIST_RE(line).rest)
     /\ Len(HeadOf(line, oneSpace)) < ChecklistMinHang
  THEN ChecklistMinHang
  ELSE Len(HeadOf(line, oneSpace))

\* the construct at idx, when its body wraps onto several lines, begins with
\* its head and every continuation line begins with a run of spaces as long as
\* the hanging indent, followed by text
HangingRule(idx, oneSpace) ==
  (HangingStartAt(idx) /\ Len(EmittedAt(idx)) >= 2) =>
    /\ StartsWith(EmittedAt(idx)[1], HeadOf(src[idx + 1], oneSpace))
    /\ \A k \in 2..Len(EmittedAt(idx)) :
         /\ LeadRun(EmittedAt(idx)[k], { SP }) = HangOf(src[idx + 1], oneSpace)
         /\ Len(EmittedAt(idx)[k]) > HangOf(src[idx + 1], oneSpace)

\* C15 as stated  Hanging indent equals head length, the head of a checklist
\* item being indent + marker + one space + checklist token + one space.
C15_HangingOneSpace ==
  Done => \A idx \in 0..(Len(src) - 1) : HangingRule(idx, TRUE)

\* C15  Hanging indent equals head length, amended: the head of a checklist
\* item is indent + marker + one space + checklist token + the whitespace that
\* follows the token in the input; the hanging indent is as long as the head,
\* raised to 8 for a checklist item whose head is shorter.
C15_Hanging ==
  Done => \A idx \in 0..(Len(src) - 1) : HangingRule(idx, FALSE)

\* C15 witness: a checklist item with a head shorter than 8 was wrapped onto
\* several lines, and its continuation lines begin with 8 spaces
C15_Witness ==
  /\ Done /\ pass = 1
  /\ \E idx \in 0..(Len(src) - 1) :
       /\ HangingStartAt(idx)
       /\ Len(EmittedAt(idx)) >= 2
       /\ LIST_RE(src[idx + 1]).ok /\ HasChecklist(LIST_RE(src[idx + 1]).rest)
       /\ Len(HeadOf(src[idx + 1], FALSE)) < ChecklistMinHang
       /\ LeadRun(EmittedAt(idx)[2], { SP }) = ChecklistMinHang

---------------------------------------------------------------------------
(* Properties of the wrapper                                               *)

WDone == wpc = "done"

\* C3  Width bound: every line of a wrapped paragraph (no hanging prefix) that
\* is not empty and not a single URL token is at most width characters long.
C3_WidthBound ==
  (WDone /\ whang = << >> /\ wwidth >= 1) =>
    \A k \in 1..Len(wlines) :
      wlines[k] = << >> \/ URL_TOKEN_RE(wlines[k]) \/ Len(wlines[k]) <= wwidth

\* C4 as stated  Word preservation: the tokens of the wrapped text are the
\* tokens of the source text, in order, at every width.
C4_WordsPreservedAlways == WDone => Tokens(wresult) = Tokens(wtext)

\* no token that the wrapper would split: every non-URL token fits the width
NoLongToken == \A k \in 1..Len(words) : URL_TOKEN_RE(words[k]) \/ Len(words[k]) <= wwidth

\* C4  Word preservation, amended: when no non-URL token is longer than the
\* width, the tokens of the wrapped text are the tokens of the source text,
\* in order.
C4_WordsPreserved == (WDone /\ NoLongToken) => Tokens(wresult) = Tokens(wtext)

\* C4 witness: a text without long tokens was wrapped onto several lines, one
\* of them begun by a short word pulled off the line before
C4_Witness ==
  /\ WDone /\ NoLongToken /\ Len(wlines) >= 3
  /\ \E k \in 2..Len(wlines) :
       Len(Tokens(wlines[k])) >= 2 /\ Len(Tokens(wlines[k])[1]) <= ShortWordLen

\* C5  Termination: every iteration of the hard-split loop shortens the
\* remainder s, so that the loop ends.
C5_SplitProgress ==
  [][ (wpc = "split" /\ wpc' = "split") => Len(ws') < Len(ws) ]_vars

\* the lines of the wrapper's result that hold token w
LinesWith(w) ==
  { l \in 1..Len(wlines) : \E t \in 1..Len(Tokens(wlines[l])) : Tokens(wlines[l])[t] = w }

\* C16  URL protection: a token scheme://rest is whole on some line of the
\* result, and when it alone is longer than the width no other token shares
\* its line.
C16_UrlProtected ==
  (WDone /\ wwidth >= 1) =>
    \A k \in 1..Len(words) :
      URL_TOKEN_RE(words[k]) =>
        /\ LinesWith(words[k]) # {}
        /\ Len(words[k]) > wwidth =>
             \A l \in LinesWith(words[k]) : Len(Tokens(wlines[l])) = 1

\* the last token of a line
LastToken(line) == Tokens(line)[Len(Tokens(line))]

\* a line of more than one token that ends with a token of length <= 2
EndsShort(line) ==
  Len(Tokens(line)) > 1 /\ Len(LastToken(line)) <= ShortWordLen

\* C20 as stated  Short-word stickiness: in the wrapper's result no line other
\* than the last has more than one token and ends with a token of length <= 2.
C20_NoShortLineEnd ==
  (WDone /\ wwidth >= 1) =>
    \A l \in 1..(Len(wlines) - 1) : ~ EndsShort(wlines[l])

\* C20  Short-word stickiness, amended: when the wrapper closes a line because
\* the next token does not fit, and that line has more than one token and ends
\* with a token of length <= 2, that one token is taken off the closed line
\* and begins the next line, before the token that did not fit.
C20_ShortWordCarried ==
  [][ (/\ wpc = "loop" /\ wpc' = "loop" /\ widx' = widx + 1
       /\ Len(wlines') = Len(wlines) + 1
       /\ EndsShort(wline)) =>
        /\ wlines' = Append(wlines,
                            Join(SubSeq(Tokens(wline), 1, Len(Tokens(wline)) - 1), << SP >>))
        /\ wline' = LastToken(wline) \o << SP >> \o words[widx + 1] ]_vars

\* C20 witness: the current line begins with a short token that would have
\* fitted at the end of the line closed before it
C20_Witness ==
  /\ wpc = "loop" /\ wwidth >= 1 /\ widx >= 3
  /\ wlines # << >>
  /\ Len(Tokens(wline)) = 2
  /\ Len(Tokens(wline)[1]) <= ShortWordLen
  /\ Tokens(wline)[2] = words[widx]
  /\ Len(wlines[Len(wlines)]) + 1 + Len(Tokens(wline)[1]) <= wwidth

\* C18  Totality: a call always comes to its return.  The wrapper is never in
\* an iteration of the hard-split loop whose guard holds and whose body leaves
\* the remainder s as it is: from there the guard holds for ever, lines grows
\* without bound and no string is returned.
C18_AlwaysReturns ==
  ~ (wpc = "split" /\ Len(ws) > wwidth /\ SliceFrom(ws, wwidth) = ws)

\* the call of the command or provider has returned
HostReturned == hpc = "returned"

\* C19  No-op edits are skipped: when a command or a formatting provider has
\* returned, every replacement it handed to the editor has a new text that
\* differs from the text the document holds in the replaced range.
C19_NoOpEditsSkipped ==
  HostReturned =>
    \A k \in 1..Len(edits) :
      edits[k].newText # getText(document, edits[k].range)

\* the same, for the two formatting providers alone
ProvidersSkipNoOp ==
  (HostReturned /\ entry \in Providers) =>
    \A k \in 1..Len(edits) :
      edits[k].newText # getText(document, edits[k].range)

\* C21  No empty wrapped lines: for a text with at least one token and a width
\* of 1 or more, every line of the wrapper's result holds at least one token.
C21_NoEmptyLine ==
  (WDone /\ wwidth >= 1 /\ words # << >>) =>
    \A l \in 1..Len(wlines) : Tokens(wlines[l]) # << >>

\* the indent and the marker depth of a list or definition-list line
LineIndent(line) ==
  Len(IF LIST_RE(line).ok THEN LIST_RE(line).indent ELSE DEF_LIST_RE(line).indent)
LineDepth(line) ==
  markerDepth(IF LIST_RE(line).ok THEN LIST_RE(line).marker ELSE DEF_LIST_RE(line).marker)

\* a list or definition-list line that the collection of an item looks at as
\* such: no boundary and no continuation marker
IsItemLine(line) ==
  /\ ~ ItemBoundary(line)
  /\ ~ CONTINUATION_LINE_RE(line)
  /\ (LIST_RE(line).ok \/ DEF_LIST_RE(line).ok)

\* the line is a nested child of the item that starts with line top
IsNestedChild(line, top) ==
  \/ LineIndent(line) > LineIndent(top)
  \/ (LineIndent(line) = LineIndent(top) /\ LineDepth(line) > LineDepth(top))

\* C22  Nested-versus-sibling rule: of the list and definition-list lines that
\* follow the start of an item, the collected ones are nested children (deeper
\* indent, or equal indent and deeper marker) and make the item complex, and
\* the one the collection stops at is not a nested child.
C22_NestedOrSibling ==
  Done =>
    \A idx \in 0..(Len(src) - 1) :
      ItemStartAt(idx) =>
        LET item == collectListItem(src, idx)
            top  == src[idx + 1]
        IN  /\ \A j \in (idx + 2)..item.next :
                 IsItemLine(src[j]) => (IsNestedChild(src[j], top) /\ item.complex)
            /\ (/\ item.next < Len(src)
                /\ IsItemLine(src[item.next + 1])
                /\ ~ (item.next > idx + 1 /\ CONTINUATION_LINE_RE(src[item.next])))
                 => ~ IsNestedChild(src[item.next + 1], top)

\* the paragraph buffer holds lines only outside every block mode and outside
\* a literal paragraph
ParaBufferOutsideBlocks ==
  para # << >> => (ActiveModes = {} /\ ~ inLiteralPara)

\* a step of the scan taken with a non-empty buffer either appends the current
\* line to the buffer and emits nothing, or empties the buffer and emits the
\* reflowed paragraph before anything else
ParaBufferFlushedFirst ==
  (pc = "scan" /\ para # << >>) =>
    LET rp == reflowParagraph(para, width)
    IN  \/ /\ out' = out
           /\ i < Len(src)
           /\ para' = Append(para, src[i + 1])
        \/ /\ para' = << >>
           /\ Len(out') >= Len(out) + Len(rp)
           /\ SubSeq(out', 1, Len(out) + Len(rp)) = out \o rp

\* C23  Paragraph-buffer invariant: after every step of the scan the buffer is
\* non-empty only when no block mode and no literal paragraph is active, and
\* every step that emits a line while the buffer is non-empty emits the
\* buffered paragraph first and empties the buffer.
C23_ParaBuffer ==
  [][ParaBufferOutsideBlocks' /\ ParaBufferFlushedFirst]_vars

\* C23 witness: a prose line was buffered and the toggle line after it has
\* flushed it and opened a block
C23_Witness ==
  /\ pc = "scan" /\ pass = 1 /\ i = 2
  /\ PlainProse(src[1])
  /\ ActiveModes # {}
  /\ para = << >>
  /\ out = << src[1], src[2] >>

\* collectListItem(src, idx) ends after idx and returns the lines from idx up
\* to where it ends
CollectsItsRange(idx) ==
  LET item == collectListItem(src, idx)
  IN  /\ item.next > idx
      /\ item.next <= Len(src)
      /\ item.lines = SubSeq(src, idx + 1, item.next)

\* the output after the buffered paragraph, if any, has been emitted
AfterFlush == IF para = << >> THEN out ELSE out \o reflowParagraph(para, width)

\* one iteration of the main loop takes the lines from i up to the new i: an
\* item start takes the lines of its item and emits them after the buffered
\* paragraph, any other line is taken alone and is buffered or emitted (but
\* for the empty piece after a final newline, which the return adds back)
TakesNextLines ==
  (pc = "scan" /\ i < Len(src)) =>
    LET line == src[i + 1]
        item == collectListItem(src, i)
    IN  /\ i' > i
        /\ i' <= Len(src)
        /\ IF ItemStart(ScanState)
           THEN /\ i' = item.next
                /\ para' = << >>
                /\ out' = AfterFlush \o (IF item.complex THEN item.lines
                                         ELSE reflowParagraph(item.lines, width))
           ELSE /\ i' = i + 1
                /\ \/ out' = out /\ para' = Append(para, line)
                   \/ para' = << >> /\ out' = Append(AfterFlush, line)
                   \/ para' = << >> /\ BLANK_RE(line)
                        /\ out' = Append(AfterFlush, << >>)
                   \/ para' = << >> /\ line = << >> /\ i = Len(src) - 1
                        /\ out' = AfterFlush
                   \/ para' = << >> /\ ADMON_SINGLE_RE(line).ok
                        /\ Len(out') = Len(AfterFlush) + 1
                        /\ SubSeq(out', 1, Len(AfterFlush)) = AfterFlush

\* C24  Scan progress: collectListItem(src, idx) returns next > idx and the
\* lines src[idx..next-1] at every index, and every iteration of the main loop
\* moves the index forward over exactly the lines it buffers or emits, an item
\* start over the lines of its item.
C24_ScanProgress ==
  [][ /\ \A idx \in 0..(Len(src) - 1) : CollectsItsRange(idx)
      /\ TakesNextLines ]_vars

\* C24 witness: an item of two or more lines was collected and the scan has
\* resumed at the line that follows it
C24_Witness ==
  /\ pc = "scan" /\ pass = 1 /\ i < Len(src)
  /\ \E idx \in 0..(Len(src) - 1) :
       /\ ItemStartAt(idx)
       /\ collectListItem(src, idx).next = i
       /\ i >= idx + 2

===========================================================================
